---- MODULE Spec2Model ----
(***************************************************************************)
(* A model of ser-io (src/src/lib.rs): the SER header codec, the file      *)
(* accessor SerFile (open, read_frame) and the sequential writer SerWriter *)
(* (new, write_frame, write_timestamps), and of examples/copy-ser.rs.      *)
(*                                                                         *)
(* Rust integers (u32, u64, usize) are modelled at their full width.  A    *)
(* number is a numeral: the sequence of its base-256 digits, the most      *)
(* significant first, without leading zeros (0 is the empty sequence).     *)
(* The variable build holds what the build decides: whether arithmetic     *)
(* overflow panics (overflow-checks, on in the dev profile) or wraps (the  *)
(* release profile), and the width of usize (4 bytes on a 32-bit target,   *)
(* 8 on a 64-bit one).                                                     *)
(*                                                                         *)
(* The writer's sink is one whose writes succeed (a Vec<u8>, a file on a   *)
(* device with space): sink holds the bytes written so far.  The mapped    *)
(* file does not change while it is open.                                  *)
(***************************************************************************)
EXTENDS Integers, Sequences, FiniteSets, TLC

\* ------------------------------------------------------------------ bounds
\* The largest number of bytes that follow the header in an input file.
MaxBody == 25
\* The largest index handed to read_frame.
MaxIndex == 3
\* The largest number of write_frame and write_timestamps calls on a session.
MaxCalls == 3
\* The longest frame handed to write_frame.
MaxFrameLen == 2

\* ------------------------------------------------------------------ state
VARIABLES
    build,      \* the build: [overflow_checks, usize_bytes]
    file,       \* the bytes of the input file
    ser,        \* the result of SerFile::open on file
    frame,      \* the result of the last read_frame
    hdr,        \* the header record a writer session borrows
    session,    \* the writer session: "none", "open" or "panic"
    sink,       \* the bytes written to the writer's sink
    calls,      \* the write_frame and write_timestamps calls made, with results
    back,       \* the result of SerFile::open on the sink
    pc,         \* copy-ser's main: its position
    ci          \* copy-ser's main: the loop index i

vars == <<build, file, ser, frame, hdr, session, sink, calls, back, pc, ci>>

\* ------------------------------------------------------------- the numbers
\* const HEADER_SIZE: usize = 178
HEADER_SIZE == 178
\* The widths, in bytes, of u32 and u64.
U32_BYTES == 4
U64_BYTES == 8

Rev(s) == [i \in 1..Len(s) |-> s[Len(s) + 1 - i]]

RECURSIVE Canon(_)
\* A digit sequence (most significant first) without its leading zeros.
Canon(n) == IF n = <<>> THEN <<>>
            ELSE IF Head(n) = 0 THEN Canon(Tail(n)) ELSE n

RECURSIVE LEDigits(_)
LEDigits(i) == IF i = 0 THEN <<>> ELSE <<i % 256>> \o LEDigits(i \div 256)

\* The numeral of a (small) integer, and the integer of a (small) numeral.
Num(i) == Rev(LEDigits(i))

RECURSIVE IntOf(_)
IntOf(n) == IF n = <<>> THEN 0
            ELSE IntOf(SubSeq(n, 1, Len(n) - 1)) * 256 + n[Len(n)]

RestOf(s) == IF s = <<>> THEN <<>> ELSE Tail(s)
FirstOf(s) == IF s = <<>> THEN 0 ELSE Head(s)

RECURSIVE AddLE(_, _, _)
\* a + b + c on least-significant-first digit sequences, c the carry.
AddLE(a, b, c) ==
    IF a = <<>> /\ b = <<>> THEN (IF c = 0 THEN <<>> ELSE <<c>>)
    ELSE LET s == FirstOf(a) + FirstOf(b) + c
         IN  <<s % 256>> \o AddLE(RestOf(a), RestOf(b), s \div 256)

RECURSIVE ScaleLE(_, _, _)
\* a * d + c for one digit d.
ScaleLE(a, d, c) ==
    IF a = <<>> THEN (IF c = 0 THEN <<>> ELSE <<c>>)
    ELSE LET p == Head(a) * d + c
         IN  <<p % 256>> \o ScaleLE(Tail(a), d, p \div 256)

RECURSIVE MulLE(_, _)
MulLE(a, b) ==
    IF b = <<>> THEN <<>>
    ELSE AddLE(ScaleLE(a, Head(b), 0),
               IF Tail(b) = <<>> THEN <<>> ELSE <<0>> \o MulLE(a, Tail(b)), 0)

\* The mathematical sum, product and order of two numerals.
Plus(a, b) == Canon(Rev(AddLE(Rev(a), Rev(b), 0)))
Times(a, b) == Canon(Rev(MulLE(Rev(a), Rev(b))))
Less(a, b) ==
    IF Len(a) # Len(b) THEN Len(a) < Len(b)
    ELSE \E i \in 1..Len(a) : a[i] < b[i] /\ \A j \in 1..(i - 1) : a[j] = b[j]
LessEq(a, b) == ~Less(b, a)

\* Whether a number fits an integer type k bytes wide, and the value a cast
\* to that type (or a wrapping operation in it) leaves: the low k bytes.
Fits(n, k) == Len(n) <= k
Wrap(n, k) == IF Len(n) <= k THEN n ELSE Canon(SubSeq(n, Len(n) - k + 1, Len(n)))

\* The result of an arithmetic operation in a type k bytes wide whose
\* mathematical result is n: a panic under overflow checks, else wrapped.
Checked(n, k, b) == [panic |-> b.overflow_checks /\ ~Fits(n, k), v |-> Wrap(n, k)]

\* byteorder's read_uNN::<LittleEndian> and write_uNN::<LittleEndian>.
FromLE(bytes) == Canon(Rev(bytes))
ToLE(n, k) == Rev([i \in 1..k |-> IF i <= k - Len(n) THEN 0 ELSE n[i - (k - Len(n))]])

\* &x[a..b]: panics unless a <= b <= x.len().
SliceOk(x, a, b) == LessEq(a, b) /\ LessEq(b, Num(Len(x)))
Slice(x, a, b) == SubSeq(x, IntOf(a) + 1, IntOf(b))

\* fn parse_u32(buf) / fn parse_u64(buf): the little-endian integer in the
\* first 4 / 8 bytes of buf.
parse_u32(buf) == FromLE(SubSeq(buf, 1, U32_BYTES))
parse_u64(buf) == FromLE(SubSeq(buf, 1, U64_BYTES))

\* ---------------------------------------------------------------- strings
Cont(b) == b >= 128 /\ b <= 191

RECURSIVE Utf8Valid(_)
\* str::from_utf8(x).is_ok(): x is well-formed UTF-8 (RFC 3629).
Utf8Valid(x) ==
    IF x = <<>> THEN TRUE
    ELSE LET b == x[1]
             n == Len(x)
             two == n >= 2 /\ Cont(x[2])
             three(lo, hi) == n >= 3 /\ x[2] >= lo /\ x[2] <= hi /\ Cont(x[3])
             four(lo, hi) == n >= 4 /\ x[2] >= lo /\ x[2] <= hi /\ Cont(x[3]) /\ Cont(x[4])
         IN  CASE b < 128 -> Utf8Valid(Tail(x))
               [] b >= 194 /\ b <= 223 -> two /\ Utf8Valid(SubSeq(x, 3, n))
               [] b = 224 -> three(160, 191) /\ Utf8Valid(SubSeq(x, 4, n))
               [] b = 237 -> three(128, 159) /\ Utf8Valid(SubSeq(x, 4, n))
               [] (b >= 225 /\ b <= 236) \/ b = 238 \/ b = 239 ->
                      three(128, 191) /\ Utf8Valid(SubSeq(x, 4, n))
               [] b = 240 -> four(144, 191) /\ Utf8Valid(SubSeq(x, 5, n))
               [] b >= 241 /\ b <= 243 -> four(128, 191) /\ Utf8Valid(SubSeq(x, 5, n))
               [] b = 244 -> four(128, 143) /\ Utf8Valid(SubSeq(x, 5, n))
               [] OTHER -> FALSE

\* fn parse_string(x): str::from_utf8(x).unwrap_or("").to_string().  A String
\* is modelled by its bytes.
parse_string(x) == IF Utf8Valid(x) THEN x ELSE <<>>

\* const MAGIC: &str = "LUCAM-RECORDER"
MAGIC == <<76, 85, 67, 65, 77, 45, 82, 69, 67, 79, 82, 68, 69, 82>>

\* ----------------------------------------------------------------- header
\* enum Bayer, with Unknown(u32) carrying its code (n is 0 for the others).
Known(v) == [variant |-> v, n |-> <<>>]

\* The match of SerFile::open on the bayer code.
BayerOfCode(c) ==
    CASE c = Num(0) -> Known("Mono")
      [] c = Num(8) -> Known("RGGB")
      [] c = Num(9) -> Known("GRBG")
      [] c = Num(10) -> Known("GBRG")
      [] c = Num(11) -> Known("BGGR")
      [] c = Num(16) -> Known("CYYM")
      [] c = Num(17) -> Known("YCMY")
      [] c = Num(18) -> Known("YMCY")
      [] c = Num(19) -> Known("MYYC")
      [] c = Num(100) -> Known("RGB")
      [] c = Num(101) -> Known("BGR")
      [] OTHER -> [variant |-> "Unknown", n |-> c]

\* The match of SerFile::open on the endianness code.
EndiannessOfCode(c) == IF c = Num(0) THEN "LittleEndian" ELSE "BigEndian"

\* SerHeader::bytes_per_pixel
bytes_per_pixel(h) == IF Less(Num(8), h.pixel_depth_per_plane) THEN Num(2) ELSE Num(1)

\* SerHeader::image_frame_size:
\* (self.bytes_per_pixel() as u32 * self.image_width * self.image_height) as usize
image_frame_size(h, b) ==
    LET m1 == Checked(Times(Wrap(bytes_per_pixel(h), U32_BYTES), h.image_width), U32_BYTES, b)
        m2 == Checked(Times(m1.v, h.image_height), U32_BYTES, b)
    IN  [panic |-> m1.panic \/ m2.panic, v |-> m2.v]

\* SerHeader::image_data_bytes: self.image_frame_size() * self.frame_count
image_data_bytes(h, b) ==
    LET fs == image_frame_size(h, b)
        m == Checked(Times(fs.v, h.frame_count), b.usize_bytes, b)
    IN  [panic |-> fs.panic \/ m.panic, v |-> m.v]

\* The header section of SerFile::open: the record decoded from the 178
\* header bytes (the signature is checked before it).
DecodeHeader(hb) ==
    [ image_height |-> parse_u32(SubSeq(hb, 31, 34)),
      image_width |-> parse_u32(SubSeq(hb, 27, 30)),
      frame_count |-> parse_u32(SubSeq(hb, 39, 42)),
      pixel_depth_per_plane |-> parse_u32(SubSeq(hb, 35, 38)),
      endianness |-> EndiannessOfCode(parse_u32(SubSeq(hb, 23, 26))),
      bayer |-> BayerOfCode(parse_u32(SubSeq(hb, 19, 22))),
      observer |-> parse_string(SubSeq(hb, 43, 82)),
      telescope |-> parse_string(SubSeq(hb, 123, 162)),
      instrument |-> parse_string(SubSeq(hb, 83, 122)),
      date_time |-> parse_u64(SubSeq(hb, 163, 170)),
      date_time_utc |-> parse_u64(SubSeq(hb, 171, HEADER_SIZE)) ]

\* The header of a handle that was never made.
NoHeader == DecodeHeader([i \in 1..HEADER_SIZE |-> 0])

Failed(st, msg) == [st |-> st, msg |-> msg, header |-> NoHeader, timestamps |-> <<>>]

\* The trailer section of SerFile::open: the timestamps, or a panic (an
\* overflow under overflow checks, or the slice trailer[i..i + 8]).
ParseTrailer(mmap, len, trailer_offset, frame_count, b) ==
    LET trailer_size == Checked(Times(Num(8), frame_count), b.usize_bytes, b)
        trailer_end == Checked(Plus(trailer_offset, trailer_size.v), b.usize_bytes, b)
    IN  IF trailer_size.panic \/ trailer_end.panic THEN [panic |-> TRUE, v |-> <<>>]
        ELSE IF LessEq(trailer_end.v, len)
        THEN LET trailer == Slice(mmap, trailer_offset, trailer_end.v)
                 n == IntOf(frame_count)
                 lo(i) == Num(i)
                 hi(i) == Wrap(Plus(Num(i), Num(8)), b.usize_bytes)
             IN  IF ~SliceOk(mmap, trailer_offset, trailer_end.v)
                    \/ \E i \in 0..(n - 1) : ~SliceOk(trailer, lo(i), hi(i))
                 THEN [panic |-> TRUE, v |-> <<>>]
                 ELSE [panic |-> FALSE,
                       v |-> [k \in 1..n |-> parse_u64(Slice(trailer, lo(k - 1), hi(k - 1)))]]
        ELSE [panic |-> FALSE, v |-> <<>>]

\* SerFile::open on a file holding the bytes f, in build b.  st is "ok" (a
\* handle), "err" (an Err, with its message) or "panic".
SerFile_open(f, b) ==
    LET len == Wrap(Num(Len(f)), b.usize_bytes)
    IN  IF Less(len, Num(HEADER_SIZE))
        THEN Failed("err", "file shorter than header length of 178 bytes")
        ELSE
    LET header_bytes == Slice(f, Num(0), Num(HEADER_SIZE))
    IN  IF parse_string(SubSeq(header_bytes, 1, 14)) # MAGIC
        THEN Failed("err", "bad header")
        ELSE
    LET header == DecodeHeader(header_bytes)
        idb == image_data_bytes(header, b)
        need == Checked(Plus(Num(HEADER_SIZE), idb.v), b.usize_bytes, b)
    IN  IF idb.panic \/ need.panic THEN Failed("panic", "attempt to multiply with overflow")
        ELSE IF Less(len, need.v) THEN Failed("err", "not enough bytes for images")
        ELSE
    LET ts == ParseTrailer(f, len, need.v, header.frame_count, b)
    IN  IF ts.panic THEN Failed("panic", "range end index out of range for slice")
        ELSE [st |-> "ok", msg |-> "", header |-> header, timestamps |-> ts.v]

\* The index check of read_frame: i < self.header.frame_count
IndexInRange(i, h) == Less(i, h.frame_count)

\* SerFile::read_frame(i) on the handle s over the mapped bytes mmap.
SerFile_read_frame(s, mmap, i, b) ==
    IF IndexInRange(i, s.header)
    THEN LET fs == image_frame_size(s.header, b)
             skip == Checked(Times(i, fs.v), b.usize_bytes, b)
             offset == Checked(Plus(Num(HEADER_SIZE), skip.v), b.usize_bytes, b)
             end == Checked(Plus(offset.v, fs.v), b.usize_bytes, b)
         IN  IF fs.panic \/ skip.panic \/ offset.panic \/ end.panic
                \/ ~SliceOk(mmap, offset.v, end.v)
             THEN [st |-> "panic", i |-> i, bytes |-> <<>>]
             ELSE [st |-> "ok", i |-> i, bytes |-> Slice(mmap, offset.v, end.v)]
    ELSE [st |-> "err", i |-> i, bytes |-> <<>>]

\* ----------------------------------------------------------------- writer
\* A bayer table that writes GBRG where GRBG is meant.
BayerCodeSwapped(ba) ==
    CASE ba.variant = "Mono" -> Num(0)
      [] ba.variant = "RGGB" -> Num(8)
      [] ba.variant = "GRBG" -> Num(10)
      [] ba.variant = "GBRG" -> Num(9)
      [] ba.variant = "BGGR" -> Num(11)
      [] ba.variant = "CYYM" -> Num(16)
      [] ba.variant = "YCMY" -> Num(17)
      [] ba.variant = "YMCY" -> Num(18)
      [] ba.variant = "MYYC" -> Num(19)
      [] ba.variant = "RGB" -> Num(100)
      [] ba.variant = "BGR" -> Num(101)
      [] OTHER -> ba.n

\* The match of SerWriter::new on header.bayer.
BayerCode(ba) ==
    CASE ba.variant = "Mono" -> Num(0)
      [] ba.variant = "RGGB" -> Num(8)
      [] ba.variant = "GRBG" -> Num(9)
      [] ba.variant = "GBRG" -> Num(10)
      [] ba.variant = "BGGR" -> Num(11)
      [] ba.variant = "CYYM" -> Num(16)
      [] ba.variant = "YCMY" -> Num(17)
      [] ba.variant = "YMCY" -> Num(18)
      [] ba.variant = "MYYC" -> Num(19)
      [] ba.variant = "RGB" -> Num(100)
      [] ba.variant = "BGR" -> Num(101)
      [] OTHER -> ba.n

\* The match of SerWriter::new on header.endianness.
EndiannessCode(e) == IF e = "LittleEndian" THEN Num(0) ELSE Num(1)

\* The bytes SerWriter::new collects in header_bytes.  frame_count is cast
\* (header.frame_count as u32); the strings are written as they are.
EncodeHeader(h) ==
    MAGIC
    \o ToLE(Num(0), U32_BYTES)
    \o ToLE(BayerCode(h.bayer), U32_BYTES)
    \o ToLE(EndiannessCode(h.endianness), U32_BYTES)
    \o ToLE(h.image_width, U32_BYTES)
    \o ToLE(h.image_height, U32_BYTES)
    \o ToLE(h.pixel_depth_per_plane, U32_BYTES)
    \o ToLE(Wrap(h.frame_count, U32_BYTES), U32_BYTES)
    \o h.observer
    \o h.instrument
    \o h.telescope
    \o ToLE(h.date_time, U64_BYTES)
    \o ToLE(h.date_time_utc, U64_BYTES)

\* SerWriter::new(w, header): the session ("open") and the bytes written to
\* the sink, or the panic of assert!(header_bytes.len() == HEADER_SIZE).
SerWriter_new(h) ==
    LET header_bytes == EncodeHeader(h)
    IN  IF Len(header_bytes) = HEADER_SIZE
        THEN [st |-> "open", out |-> header_bytes]
        ELSE [st |-> "panic", out |-> <<>>]

\* A write_frame that writes the frame before it compares the sizes.
SerWriter_write_frame_Unchecked(h, f, b) ==
    LET fs == image_frame_size(h, b)
    IN  IF fs.panic THEN [st |-> "panic", out |-> <<>>]
        ELSE IF fs.v = Num(Len(f)) THEN [st |-> "ok", out |-> f]
        ELSE [st |-> "err", out |-> f]

\* A write_frame that refuses a frame once frame_count frames were written.
SerWriter_write_frame_Counting(h, f, b) ==
    LET fs == image_frame_size(h, b)
        done == Cardinality({k \in 1..Len(calls) : calls[k].op = "write_frame" /\ calls[k].res = "ok"})
    IN  IF fs.panic THEN [st |-> "panic", out |-> <<>>]
        ELSE IF fs.v = Num(Len(f)) /\ Less(Num(done), h.frame_count)
             THEN [st |-> "ok", out |-> f]
        ELSE [st |-> "err", out |-> <<>>]

\* SerWriter::write_frame(frame): Ok with the bytes written, the Err of a
\* size mismatch, or the panic of image_frame_size under overflow checks.
SerWriter_write_frame(h, f, b) ==
    LET fs == image_frame_size(h, b)
    IN  IF fs.panic THEN [st |-> "panic", out |-> <<>>]
        ELSE IF fs.v = Num(Len(f)) THEN [st |-> "ok", out |-> f]
        ELSE [st |-> "err", out |-> <<>>]

RECURSIVE StampBytesOf(_)
\* The loop of write_timestamps: each timestamp as a little-endian u64.
StampBytesOf(ts) ==
    IF ts = <<>> THEN <<>> ELSE ToLE(Head(ts), U64_BYTES) \o StampBytesOf(Tail(ts))

\* SerWriter::write_timestamps(timestamps)
SerWriter_write_timestamps(ts) == [st |-> "ok", out |-> StampBytesOf(ts)]

\* ------------------------------------------------------------ input files
\* The bytes an input file may hold after the signature, field by field.
LuIdBytes == {<<0, 0, 0, 0>>, <<7, 0, 0, 0>>}
BayerBytes == {<<0, 0, 0, 0>>, <<8, 0, 0, 0>>, <<255, 0, 0, 0>>}
EndianBytes == {<<0, 0, 0, 0>>, <<1, 0, 0, 0>>, <<2, 0, 0, 0>>}
\* widths 1, 2, 641 and 65536; heights 1 and 6700417 (641 * 6700417 is
\* 2^32 + 1); frame counts 0, 1, 2 and 65536 (65536 * 65536 is 2^32).
WidthBytes == {<<1, 0, 0, 0>>, <<2, 0, 0, 0>>, <<129, 2, 0, 0>>, <<0, 0, 1, 0>>}
HeightBytes == {<<1, 0, 0, 0>>, <<129, 61, 102, 0>>}
DepthBytes == {<<8, 0, 0, 0>>, <<16, 0, 0, 0>>}
CountBytes == {<<0, 0, 0, 0>>, <<1, 0, 0, 0>>, <<2, 0, 0, 0>>, <<0, 0, 1, 0>>}
Text40(c) == [i \in 1..40 |-> c]
\* 40 bytes of text: ASCII, NUL padding, a two-byte character, and a
\* Latin-1 byte that is not UTF-8.
GoodText == Text40(65)
TextBytes == {GoodText, <<195, 169>> \o [i \in 1..38 |-> 0], <<233>> \o [i \in 1..39 |-> 32]}
StampBytes == {<<1, 2, 3, 4, 5, 6, 7, 8>>}
BadMagic == <<108, 85, 67, 65, 77, 45, 82, 69, 67, 79, 82, 68, 69, 82>>
\* n bytes of image data and trailer, no two of them equal.
Body(n) == [k \in 1..n |-> 7 * k + 3]

PlainHeader(w, h, d, fc) ==
    MAGIC \o <<0, 0, 0, 0>> \o <<0, 0, 0, 0>> \o <<0, 0, 0, 0>> \o w \o h \o d \o fc
          \o GoodText \o Text40(66) \o Text40(67)
          \o <<1, 2, 3, 4, 5, 6, 7, 8>> \o <<9, 0, 0, 0, 0, 0, 0, 128>>

\* Every geometry with every body length.
GeomFiles ==
    { PlainHeader(w, h, d, fc) \o Body(n) :
        w \in WidthBytes, h \in HeightBytes, d \in DepthBytes, fc \in CountBytes,
        n \in 0..MaxBody }

\* Two frames of two bytes with their trailer, under every signature,
\* identifier, bayer code, endianness code and text.
MetaFiles ==
    { m \o lu \o ba \o en \o <<2, 0, 0, 0>> \o <<1, 0, 0, 0>> \o <<8, 0, 0, 0>> \o <<2, 0, 0, 0>>
        \o ob \o Text40(66) \o te \o dt \o <<9, 0, 0, 0, 0, 0, 0, 128>> \o Body(20) :
        m \in {MAGIC, BadMagic}, lu \in LuIdBytes, ba \in BayerBytes, en \in EndianBytes,
        ob \in TextBytes, te \in {Text40(67), <<255>> \o [i \in 1..39 |-> 67]}, dt \in StampBytes }

\* Files shorter than a header.
ShortFiles ==
    { SubSeq(PlainHeader(<<1, 0, 0, 0>>, <<1, 0, 0, 0>>, <<8, 0, 0, 0>>, <<0, 0, 0, 0>>), 1, n) :
        n \in {0, 14, 177} }

Files == GeomFiles \cup MetaFiles \cup ShortFiles

Builds == [overflow_checks : BOOLEAN, usize_bytes : {4, 8}]
Unopened == Failed("unopened", "")
NoFrame == [st |-> "none", i |-> <<>>, bytes |-> <<>>]

\* ------------------------------------------------------- the file accessor
InitOpen ==
    /\ build \in Builds
    /\ file \in Files
    /\ ser = Unopened
    /\ frame = NoFrame
    /\ hdr = NoHeader
    /\ session = "none"
    /\ sink = <<>>
    /\ calls = <<>>
    /\ back = Unopened
    /\ pc = "idle"
    /\ ci = 0

\* let ser = SerFile::open(path)
Open ==
    /\ ser.st = "unopened"
    /\ ser' = SerFile_open(file, build)
    /\ UNCHANGED <<build, file, frame, hdr, session, sink, calls, back, pc, ci>>

\* ser.read_frame(i)
ReadFrame(i) ==
    /\ ser.st = "ok"
    /\ frame' = SerFile_read_frame(ser, file, Num(i), build)
    /\ UNCHANGED <<build, file, ser, hdr, session, sink, calls, back, pc, ci>>

NextOpen == Open \/ \E i \in 0..MaxIndex : ReadFrame(i)

SpecOpen == InitOpen /\ [][NextOpen]_vars

\* ------------------------------------------------------ the header codec
\* The header records handed to SerWriter::new.  The numbers are numerals
\* within their types (u32; usize for frame_count; u64 for the dates).
Record(h, wd, fc, d, e, ba, ob, te, ins) ==
    [ image_height |-> h, image_width |-> wd, frame_count |-> fc,
      pixel_depth_per_plane |-> d, endianness |-> e, bayer |-> ba,
      observer |-> ob, telescope |-> te, instrument |-> ins,
      date_time |-> <<1, 2, 3, 4, 5, 6, 7, 8>>, date_time_utc |-> <<9, 10>> ]

Bayers ==
    { Known(v) : v \in {"Mono", "RGGB", "GRBG", "GBRG", "BGGR", "CYYM", "YCMY",
                        "YMCY", "MYYC", "RGB", "BGR"} }
    \cup { [variant |-> "Unknown", n |-> c] : c \in {Num(255), Num(8), <<1, 0, 0, 1>>} }

\* The lengths of the three strings: all 40; 39, 41 and 40; none; one short.
TextProfiles ==
    { <<Text40(79), Text40(73), Text40(84)>>,
      <<<<195, 169>> \o [i \in 1..38 |-> 32], Text40(73), Text40(0)>>,
      <<[i \in 1..39 |-> 79], [i \in 1..41 |-> 73], Text40(84)>>,
      <<<<>>, <<>>, <<>>>>,
      <<Text40(79), Text40(73), [i \in 1..39 |-> 84]>> }

CodecRecords ==
    { Record(h, wd, fc, d, e, ba, t[1], t[3], t[2]) :
        h \in {<<>>, <<1, 2, 3, 4>>}, wd \in {Num(1), <<255, 255, 255, 255>>},
        fc \in {<<>>, Num(2), <<255, 255, 255, 255>>, <<1, 0, 0, 0, 2>>},
        d \in {Num(8), Num(16)}, e \in {"LittleEndian", "BigEndian"},
        ba \in Bayers, t \in TextProfiles }

InitCodec ==
    /\ build \in Builds
    /\ file = <<>>
    /\ ser = Unopened
    /\ frame = NoFrame
    /\ hdr \in { r \in CodecRecords : Fits(r.frame_count, build.usize_bytes) }
    /\ session = "none"
    /\ sink = <<>>
    /\ calls = <<>>
    /\ back = Unopened
    /\ pc = "idle"
    /\ ci = 0

\* let mut w = SerWriter::new(&mut sink, &hdr)
New ==
    /\ session = "none"
    /\ LET r == SerWriter_new(hdr)
       IN  /\ session' = r.st
           /\ sink' = sink \o r.out
    /\ UNCHANGED <<build, file, ser, frame, hdr, calls, back, pc, ci>>

\* SerFile::open on the file the sink is
Reopen ==
    /\ session = "open"
    /\ back.st = "unopened"
    /\ back' = SerFile_open(sink, build)
    /\ UNCHANGED <<build, file, ser, frame, hdr, session, sink, calls, pc, ci>>

NextCodec == New \/ Reopen

SpecCodec == InitCodec /\ [][NextCodec]_vars

\* ------------------------------------------------------ the writer session
\* Frame sizes 1, 2 and 2 and, with 641 * 6700417, one that overflows u32.
WriterRecords ==
    { Record(g[2], g[1], fc, g[3], "LittleEndian", Known("Mono"),
             Text40(79), Text40(84), Text40(73)) :
        g \in { <<Num(1), Num(1), Num(8)>>, <<Num(2), Num(1), Num(8)>>,
                <<Num(1), Num(1), Num(16)>>, <<Num(641), Num(6700417), Num(8)>> },
        fc \in {<<>>, Num(1), Num(2)} }

\* A frame of n bytes that start after c.
Frame(n, c) == [i \in 1..n |-> c + i]
FrameInputs == { Frame(n, c) : n \in 0..MaxFrameLen, c \in {10, 20} }
StampInputs == { <<>>, <<Num(1), <<1, 2, 3, 4, 5, 6, 7, 8>>>> }

InitWriter ==
    /\ build \in Builds
    /\ file = <<>>
    /\ ser = Unopened
    /\ frame = NoFrame
    /\ hdr \in WriterRecords
    /\ session = "none"
    /\ sink = <<>>
    /\ calls = <<>>
    /\ back = Unopened
    /\ pc = "idle"
    /\ ci = 0

Call(op, arg, res) == [op |-> op, arg |-> arg, res |-> res]

\* A session that write_timestamps has closed: write_frame returns the error.
WriteFrameSealed(f) ==
    /\ session = "open"
    /\ Len(calls) < MaxCalls
    /\ LET sealed == \E k \in 1..Len(calls) : calls[k].op = "write_timestamps"
           r == IF sealed THEN [st |-> "err", out |-> <<>>]
                ELSE SerWriter_write_frame(hdr, f, build)
       IN  /\ session' = IF r.st = "panic" THEN "panic" ELSE "open"
           /\ sink' = sink \o r.out
           /\ calls' = Append(calls, Call("write_frame", f, r.st))
    /\ UNCHANGED <<build, file, ser, frame, hdr, back, pc, ci>>

\* w.write_frame(f)
WriteFrame(f) ==
    /\ session = "open"
    /\ Len(calls) < MaxCalls
    /\ LET r == SerWriter_write_frame(hdr, f, build)
       IN  /\ session' = IF r.st = "panic" THEN "panic" ELSE "open"
           /\ sink' = sink \o r.out
           /\ calls' = Append(calls, Call("write_frame", f, r.st))
    /\ UNCHANGED <<build, file, ser, frame, hdr, back, pc, ci>>

\* w.write_timestamps(ts)
WriteTimestamps(ts) ==
    /\ session = "open"
    /\ Len(calls) < MaxCalls
    /\ LET r == SerWriter_write_timestamps(ts)
       IN  /\ sink' = sink \o r.out
           /\ calls' = Append(calls, Call("write_timestamps", ts, r.st))
    /\ UNCHANGED <<build, file, ser, frame, hdr, session, back, pc, ci>>

NextWriter ==
    \/ New
    \/ \E f \in FrameInputs : WriteFrame(f)
    \/ \E ts \in StampInputs : WriteTimestamps(ts)

SpecWriter == InitWriter /\ [][NextWriter]_vars

\* ------------------------------------------------ examples/copy-ser.rs main
InitCopy ==
    /\ build \in Builds
    /\ file \in Files
    /\ ser = Unopened
    /\ frame = NoFrame
    /\ hdr = NoHeader
    /\ session = "none"
    /\ sink = <<>>
    /\ calls = <<>>
    /\ back = Unopened
    /\ pc = "start"
    /\ ci = 0

\* let ser = SerFile::open(&opt.input).unwrap();
MainOpen ==
    /\ pc = "start"
    /\ ser' = SerFile_open(file, build)
    /\ pc' = IF ser'.st = "ok" THEN "opened" ELSE "panic"
    /\ UNCHANGED <<build, file, frame, hdr, session, sink, calls, back, ci>>

\* let mut f = File::create(&opt.output)?;
\* let mut w = SerWriter::new(&mut f, &ser.header)?;
MainNew ==
    /\ pc = "opened"
    /\ hdr' = ser.header
    /\ LET r == SerWriter_new(ser.header)
       IN  /\ session' = r.st
           /\ sink' = r.out
           /\ pc' = IF r.st = "open" THEN "loop" ELSE "panic"
    /\ UNCHANGED <<build, file, ser, frame, calls, back, ci>>

\* for i in 0..ser.header.frame_count {
\*     let frame = ser.read_frame(i)?; w.write_frame(frame)?; }
MainFrame ==
    /\ pc = "loop"
    /\ Less(Num(ci), ser.header.frame_count)
    /\ frame' = SerFile_read_frame(ser, file, Num(ci), build)
    /\ LET r == IF frame'.st = "ok" THEN SerWriter_write_frame(hdr, frame'.bytes, build)
                ELSE [st |-> frame'.st, out |-> <<>>]
       IN  /\ sink' = sink \o r.out
           /\ calls' = IF frame'.st = "ok"
                       THEN Append(calls, Call("write_frame", frame'.bytes, r.st))
                       ELSE calls
           /\ session' = IF r.st = "panic" THEN "panic" ELSE session
           /\ pc' = IF r.st = "ok" THEN "loop" ELSE r.st
           /\ ci' = IF r.st = "ok" THEN ci + 1 ELSE ci
    /\ UNCHANGED <<build, file, ser, hdr, back>>

\* w.write_timestamps(&ser.timestamps)
MainTimestamps ==
    /\ pc = "loop"
    /\ ~Less(Num(ci), ser.header.frame_count)
    /\ LET r == SerWriter_write_timestamps(ser.timestamps)
       IN  /\ sink' = sink \o r.out
           /\ calls' = Append(calls, Call("write_timestamps", ser.timestamps, r.st))
    /\ pc' = "done"
    /\ UNCHANGED <<build, file, ser, frame, hdr, session, back, ci>>

NextCopy == MainOpen \/ MainNew \/ MainFrame \/ MainTimestamps

SpecCopy == InitCopy /\ [][NextCopy]_vars

\* ---------------------------------------------- claims on the file accessor
\* What the file itself declares, read at the offsets of the format and
\* computed without any bound on the size of a number.
FileWidth == FromLE(SubSeq(file, 27, 30))
FileHeight == FromLE(SubSeq(file, 31, 34))
FileDepth == FromLE(SubSeq(file, 35, 38))
FileCount == FromLE(SubSeq(file, 39, 42))
FileBpp == IF Less(Num(8), FileDepth) THEN Num(2) ELSE Num(1)
FileFrameSize == Times(Times(FileBpp, FileWidth), FileHeight)
FileDataEnd == Plus(Num(178), Times(FileCount, FileFrameSize))
FileLen == Num(Len(file))
\* The little-endian u64 in the 8 bytes at offset off (a numeral) of the file.
FileU64At(off) == FromLE(SubSeq(file, IntOf(off) + 1, IntOf(off) + 8))

\* C1 (as claimed): on an opened file whose length is at least
\* 178 + image_data_bytes + 8 * frame_count, timestamps has frame_count entries
\* and entry k is the little-endian u64 at file offset
\* 178 + image_data_bytes + 8 * k; otherwise timestamps is empty.
C1_TimestampsAtStride8 ==
    ser.st = "ok" =>
        LET fc == ser.header.frame_count
            off == Plus(Num(178), image_data_bytes(ser.header, build).v)
        IN  IF LessEq(Plus(off, Times(Num(8), fc)), FileLen)
            THEN /\ Len(ser.timestamps) = IntOf(fc)
                 /\ \A k \in 0..(IntOf(fc) - 1) :
                        ser.timestamps[k + 1] = FileU64At(Plus(off, Num(8 * k)))
            ELSE ser.timestamps = <<>>

\* C1: a file with two frames and a full trailer has been opened.
C1_Reached ==
    /\ ser.st = "ok"
    /\ ser.header.frame_count = Num(2)
    /\ Len(ser.timestamps) = 2

\* C4 (as claimed): on an opened file, read_frame(i) with i < frame_count
\* returns the F bytes at offset 178 + i * F, F = bytes_per_pixel * width *
\* height; read_frame(i) with i >= frame_count returns the error.
C4_FrameIsDeclaredSize ==
    (ser.st = "ok" /\ frame.st # "none") =>
        IF Less(frame.i, FileCount)
        THEN /\ frame.st = "ok"
             /\ Num(Len(frame.bytes)) = FileFrameSize
             /\ frame.bytes = SubSeq(file, 178 + IntOf(frame.i) * Len(frame.bytes) + 1,
                                     178 + (IntOf(frame.i) + 1) * Len(frame.bytes))
        ELSE frame.st = "err"

\* C4: a frame has been read from a file whose declared frame size is 2^32 + 1.
C4_Reached ==
    /\ ser.st = "ok"
    /\ frame.st = "ok"
    /\ FileFrameSize = <<1, 0, 0, 0, 1>>

\* C5 (as claimed): open returns an error when the file is shorter than 178
\* bytes, or does not start with the signature, or is shorter than
\* 178 + frame_count * bytes_per_pixel * width * height; otherwise a handle.
C5_OpenChecksDeclaredLength ==
    ser.st # "unopened" =>
        ser.st = IF \/ Len(file) < 178
                    \/ SubSeq(file, 1, 14) # MAGIC
                    \/ Less(FileLen, FileDataEnd)
                 THEN "err" ELSE "ok"

\* C5: a file whose declared image data exceeds its length has been opened.
C5_Reached ==
    /\ ser.st = "ok"
    /\ Less(FileLen, FileDataEnd)

\* C10 (as claimed): on an opened file no read_frame(i) with i < frame_count and no slice
\* of the trailer parse reaches outside the mapped file: the frame's range
\* [offset, offset + size) computed by the code ends at or before the file's
\* length, the trailer's does when timestamps were read, and neither panics.
C10_SlicesInsideFile ==
    /\ ser.st = "panic" => ser.msg # "range end index out of range for slice"
    /\ frame.st # "panic"
    /\ (ser.st = "ok" /\ frame.st # "none" /\ Less(frame.i, ser.header.frame_count)) =>
           LET fs == image_frame_size(ser.header, build).v
           IN  /\ frame.st = "ok"
               /\ LessEq(Plus(Plus(Num(178), Times(frame.i, fs)), fs), FileLen)
    /\ (ser.st = "ok" /\ ser.timestamps # <<>>) =>
           LessEq(Plus(Plus(Num(178), image_data_bytes(ser.header, build).v),
                       Times(Num(8), ser.header.frame_count)), FileLen)

\* C10: the last frame of an opened file whose declared frame size exceeds
\* 32 bits has been read, the trailer having been parsed.
C10_Reached ==
    /\ ser.st = "ok"
    /\ ~Fits(FileFrameSize, 4)
    /\ ser.timestamps # <<>>
    /\ frame.st = "ok"
    /\ Plus(frame.i, Num(1)) = ser.header.frame_count

\* ---------------------------------------------- claims on the header codec
TextsAre40 ==
    /\ Len(hdr.observer) = 40
    /\ Len(hdr.instrument) = 40
    /\ Len(hdr.telescope) = 40

RecognizedCodes == { Num(c) : c \in {0, 8, 9, 10, 11, 16, 17, 18, 19, 100, 101} }

\* C2 (as claimed): for every header record whose three text fields are 40
\* bytes long, the header section of SerFile::open decodes the bytes
\* SerWriter::new wrote into a record equal to the original in every field.
C2_HeaderRoundTrip ==
    (session = "open" /\ TextsAre40) => DecodeHeader(SubSeq(sink, 1, 178)) = hdr

\* C2 (amended): the same, for the records whose frame_count fits 32 bits
\* and whose bayer is not Unknown(n) with n one of the eleven recognized
\* codes; and when SerFile::open accepts the written bytes as a file, the
\* header of its handle is the original record.
C2_HeaderRoundTripOnTheWire ==
    (/\ session = "open"
     /\ TextsAre40
     /\ Fits(hdr.frame_count, 4)
     /\ hdr.bayer.variant = "Unknown" => hdr.bayer.n \notin RecognizedCodes)
    => /\ DecodeHeader(SubSeq(sink, 1, 178)) = hdr
       /\ back.st = "ok" => back.header = hdr

\* C2: a record with an unrecognized bayer code, big-endian pixels and a
\* frame count of 2^32 - 1 has been written and opened again.
C2_Reached ==
    /\ session = "open"
    /\ TextsAre40
    /\ hdr.bayer = [variant |-> "Unknown", n |-> Num(255)]
    /\ hdr.endianness = "BigEndian"
    /\ hdr.frame_count = <<255, 255, 255, 255>>
    /\ back.st = "ok"

\* C3 (as claimed): for every header record SerWriter::new returns a session
\* having written exactly 178 bytes, date_time at offset 162 and
\* date_time_utc at offset 170.
C3_NewWrites178Bytes ==
    session # "none" =>
        /\ session = "open"
        /\ Len(sink) = 178
        /\ SubSeq(sink, 163, 170) = ToLE(hdr.date_time, 8)
        /\ SubSeq(sink, 171, 178) = ToLE(hdr.date_time_utc, 8)

\* C3: SerWriter::new has run on a record whose text fields are empty.
C3_Reached ==
    /\ session # "none"
    /\ hdr.observer = <<>>

\* -------------------------------------------- claims on the writer session
LastCall == calls'[Len(calls')]
OkFrames == { k \in 1..Len(calls) : calls[k].op = "write_frame" /\ calls[k].res = "ok" }
TimestampsWritten == \E k \in 1..Len(calls) : calls[k].op = "write_timestamps"
FrameSize == image_frame_size(hdr, build)

RECURSIVE Written(_)
\* The bytes of the calls that returned Ok, in call order.
Written(cs) ==
    IF cs = <<>> THEN <<>>
    ELSE LET c == Head(cs)
         IN  (IF c.res # "ok" THEN <<>>
              ELSE IF c.op = "write_frame" THEN c.arg ELSE StampBytesOf(c.arg))
             \o Written(Tail(cs))

\* C6: a write_frame call with a frame whose length differs from
\* image_frame_size() returns the error, leaves the sink as it was and the
\* session open; a write_frame call with a frame of that length, also right
\* after a failed one, returns Ok and appends exactly the frame.
C6_MismatchWritesNothing ==
    [][ (calls' # calls /\ LastCall.op = "write_frame" /\ ~FrameSize.panic) =>
            IF Num(Len(LastCall.arg)) # FrameSize.v
            THEN LastCall.res = "err" /\ sink' = sink /\ session' = "open"
            ELSE LastCall.res = "ok" /\ sink' = sink \o LastCall.arg /\ session' = "open"
      ]_vars

\* C6: a frame of the wrong length was refused and the next, of the right
\* length, written.
C6_Reached ==
    /\ Len(calls) = 2
    /\ calls[1].op = "write_frame" /\ calls[1].res = "err" /\ calls[1].arg # <<>>
    /\ calls[2].op = "write_frame" /\ calls[2].res = "ok"
    /\ sink = EncodeHeader(hdr) \o calls[2].arg

\* C7 (as claimed): once write_timestamps has been called on a session, no
\* later call on it appends bytes to the sink.
C7_NothingAfterTimestamps ==
    [][ TimestampsWritten => sink' = sink ]_vars

\* C7 (amended): write_timestamps does not close the session: a later
\* write_frame with a frame of image_frame_size() bytes, and a later
\* write_timestamps, returns Ok and appends its bytes to the sink after the
\* timestamps already there.
C7_SessionStaysOpen ==
    [][ (TimestampsWritten /\ calls' # calls /\ ~FrameSize.panic) =>
            /\ LastCall.op = "write_timestamps" =>
                   LastCall.res = "ok" /\ sink' = sink \o StampBytesOf(LastCall.arg)
            /\ (LastCall.op = "write_frame" /\ Num(Len(LastCall.arg)) = FrameSize.v) =>
                   LastCall.res = "ok" /\ sink' = sink \o LastCall.arg
      ]_vars

\* C7: a frame has been written after two timestamps.
C7_Reached ==
    /\ Len(calls) = 2
    /\ calls[1].op = "write_timestamps" /\ Len(calls[1].arg) = 2
    /\ calls[2].op = "write_frame" /\ calls[2].res = "ok"
    /\ sink = EncodeHeader(hdr) \o StampBytesOf(calls[1].arg) \o calls[2].arg

\* C9: after any sequence of write_frame calls the sink holds the 178 header
\* bytes and then the frames of the calls that returned Ok, in call order; a
\* call returns Ok exactly when its frame has image_frame_size() bytes,
\* however many frames were written before.
C9_SinkIsHeaderThenFrames ==
    (session # "none" /\ ~TimestampsWritten) =>
        /\ session = "open" =>
               /\ Len(EncodeHeader(hdr)) = 178
               /\ sink = EncodeHeader(hdr) \o Written(calls)
        /\ \A k \in 1..Len(calls) :
               calls[k].res # "panic" =>
                   (calls[k].res = "ok" <=> Num(Len(calls[k].arg)) = FrameSize.v)

\* C9: more frames than frame_count have been written.
C9_Reached ==
    /\ session = "open"
    /\ ~TimestampsWritten
    /\ hdr.frame_count = Num(1)
    /\ Cardinality(OkFrames) = 3
    /\ calls[1].arg # calls[2].arg

\* ------------------------------------------------------ claims on copy-ser
\* The end of what the file's header, image data and (when the file holds
\* all of it) timestamp trailer take.
CopiedEnd ==
    LET off == Plus(Num(178), image_data_bytes(ser.header, build).v)
        end == Plus(off, Times(Num(8), ser.header.frame_count))
    IN  IF LessEq(end, FileLen) THEN end ELSE off

\* C8 (as claimed): for every file SerFile::open accepts, copy-ser's main
\* ends without error or panic, the sink holding the file's header, image
\* data and (when present) timestamp trailer, byte for byte.
C8_CopyIsIdentical ==
    ser.st = "ok" =>
        /\ pc \notin {"panic", "err"}
        /\ pc = "done" => sink = SubSeq(file, 1, IntOf(CopiedEnd))

\* C8: main has run to its end on a file with two frames and their trailer.
C8_Reached ==
    /\ pc = "done"
    /\ ser.header.frame_count = Num(2)
    /\ Len(ser.timestamps) = 2

====
